---- MODULE Spec2Model ----
(***************************************************************************)
(* MACD "first green" scanner (src/main.py): event detector, dedup state   *)
(* map, per-instrument reconciliation (process_symbol) and the scan        *)
(* orchestrator (scanner) with its worker pool.                            *)
(*                                                                         *)
(* The MACD arithmetic (macd, floating-point EMAs) is not reproduced: a    *)
(* fetched frame is a sequence of candles that already carry the hist      *)
(* column, drawn by the environment.  Everything downstream of hist is     *)
(* modelled as the code computes it.                                       *)
(***************************************************************************)
EXTENDS Integers, Sequences, FiniteSets, TLC

\* ------------------------------------------------------------------ bounds
MaxSymbols == 2
MaxTime == 2
MaxLen == 4
MaxKey == 2
MaxVal == 1

\* instrument universe returned by the catalogue (at most MaxSymbols symbols)
Symbols == 1..MaxSymbols

\* the two scanner-running threads of start_loop: the periodic loop and the
\* forced startup scan
Threads == {"loop", "startup"}

\* timeframes fetched for confirmation, in the order the code visits them
ConfTFs == <<"1h", "15m">>
ConfTFSet == {"1h", "15m"}

\* ------------------------------------------------------- frames (DataFrame)
\* A frame is a sequence of candles [time, hist], ascending by time; the empty
\* sequence is the empty DataFrame returned on a failed or malformed fetch.
EmptyFrame == <<>>

MkFrame(h, ct) ==
    [i \in 1..Len(h) |-> [time |-> ct - (Len(h) - i), hist |-> h[i]]]

HistValues == {-1, 0, 1}

\* every hist column of at most n bars
HistSeqs(n) == UNION {[1..k -> HistValues] : k \in 0..n}

\* every frame of at most MaxLen candles whose last candle closes at time ct
AllFrames(ct) == {MkFrame(h, ct) : h \in HistSeqs(MaxLen)}

\* representative frames a 4h fetch returns: failed fetch (empty), a crossing
\* and a cleared condition; the detector is checked on every hist column in
\* SpecDetect
PrimaryHists == {<<-1, -1, 1>>, <<1, 1, -1>>}
PrimaryFrames(ct) == {EmptyFrame} \cup {MkFrame(h, ct) : h \in PrimaryHists}

\* a confirmation fetch fails (empty) or shows its own crossing
ConfHists == {<<-1, -1, 1>>}
ConfFrames(ct) == {EmptyFrame} \cup {MkFrame(h, ct) : h \in ConfHists}

\* df.empty
IsEmpty(df) == Len(df) = 0

\* check_first_green with the last bar compared by >= instead of >
check_first_green_zero(df) ==
    IF Len(df) < 3 THEN FALSE
    ELSE df[Len(df) - 1].hist < 0 /\ df[Len(df)].hist >= 0

\* check_first_green (main.py:94-97)
check_first_green(df) ==
    IF Len(df) < 3 THEN FALSE
    ELSE df[Len(df) - 1].hist < 0 /\ df[Len(df)].hist > 0

\* ------------------------------------------------------------ the state map
\* A state map is a function from a finite set of keys to values (dict).
EmptyMap == <<>>

\* dict.get(key, default)
Get(st, k, default) == IF k \in DOMAIN st THEN st[k] ELSE default

\* st[key] = value
Put(st, k, v) == [x \in DOMAIN st \cup {k} |-> IF x = k THEN v ELSE st[x]]

\* st.pop(key, None)
Pop(st, k) == [x \in DOMAIN st \ {k} |-> st[x]]

\* an update that keeps the accumulator's value on a key collision
MergeKeepBase(base, delta) ==
    [k \in DOMAIN base \cup DOMAIN delta |->
        IF k \in DOMAIN base THEN base[k] ELSE delta[k]]

\* state.update(new_state) (main.py:164)
Merge(base, delta) ==
    [k \in DOMAIN base \cup DOMAIN delta |->
        IF k \in DOMAIN delta THEN delta[k] ELSE base[k]]

\* state.copy() (main.py:160): a shallow copy of a dict of ints and booleans
Copy(st) == [k \in DOMAIN st |-> st[k]]

\* f"{symbol}-4h" and f"{symbol}-4h-strong"
Key4h(symbol) == <<symbol, "4h">>
KeyStrong(symbol) == <<symbol, "4h-strong">>

\* ------------------------------------------------------------ notifications
SignalMsg(symbol) ==
    [kind |-> "Signal", symbol |-> symbol, alignment |-> <<>>]
StrongMsg(symbol, alignment) ==
    [kind |-> "STRONG SIGNAL", symbol |-> symbol, alignment |-> alignment]

\* ----------------------------------------------------------- process_symbol
\* the loop over ["1h", "15m"] leaving at the first empty frame (break for the
\* continue of main.py:136)
AlignmentBreak(conf) ==
    IF IsEmpty(conf[ConfTFs[1]]) THEN <<>>
    ELSE SelectSeq(ConfTFs, LAMBDA tf : ~IsEmpty(conf[tf]) /\ check_first_green(conf[tf]))

\* alignment list built by the loop over ["1h", "15m"] (main.py:132-139)
Alignment(conf) ==
    SelectSeq(ConfTFs, LAMBDA tf : ~IsEmpty(conf[tf]) /\ check_first_green(conf[tf]))

\* int(df4h.iloc[-1]["time"])
CandleTime(df) == df[Len(df)].time

\* the else branch of main.py:126 is taken: confirmation frames are fetched
NeedsConfirm(symbol, state, force_run, df4h) ==
    /\ ~IsEmpty(df4h)
    /\ check_first_green(df4h)
    /\ ~(Get(state, Key4h(symbol), 0) # CandleTime(df4h) \/ force_run)

\* the timeframes process_symbol fetches, in order (main.py:116, 132-134)
fetched_timeframes(symbol, state, force_run, df4h) ==
    IF NeedsConfirm(symbol, state, force_run, df4h) THEN <<"4h">> \o ConfTFs ELSE <<"4h">>

\* process_symbol with the test of main.py:125 reduced to last_time != candle_time
process_symbol_unforced(symbol, state, force_run, df4h, conf) ==
    IF IsEmpty(df4h) THEN [state |-> state, results |-> <<>>]
    ELSE IF check_first_green(df4h) THEN
        LET key == Key4h(symbol)
            last_time == Get(state, key, 0)
            candle_time == CandleTime(df4h)
        IN IF last_time # candle_time
           THEN [state |-> Put(Put(state, key, candle_time), KeyStrong(symbol), FALSE),
                 results |-> <<SignalMsg(symbol)>>]
           ELSE LET alignment == Alignment(conf)
                IN IF alignment # <<>> /\ ~Get(state, KeyStrong(symbol), FALSE)
                   THEN [state |-> Put(state, KeyStrong(symbol), TRUE),
                         results |-> <<StrongMsg(symbol, alignment)>>]
                   ELSE [state |-> state, results |-> <<>>]
    ELSE [state |-> Pop(state, KeyStrong(symbol)), results |-> <<>>]

\* process_symbol recording a new candle without the message of main.py:126
process_symbol_silent(symbol, state, force_run, df4h, conf) ==
    IF IsEmpty(df4h) THEN [state |-> state, results |-> <<>>]
    ELSE IF check_first_green(df4h) THEN
        LET key == Key4h(symbol)
            last_time == Get(state, key, 0)
            candle_time == CandleTime(df4h)
        IN IF last_time # candle_time \/ force_run
           THEN [state |-> Put(Put(state, key, candle_time), KeyStrong(symbol), FALSE),
                 results |-> <<>>]
           ELSE LET alignment == Alignment(conf)
                IN IF alignment # <<>> /\ ~Get(state, KeyStrong(symbol), FALSE)
                   THEN [state |-> Put(state, KeyStrong(symbol), TRUE),
                         results |-> <<StrongMsg(symbol, alignment)>>]
                   ELSE [state |-> state, results |-> <<>>]
    ELSE [state |-> Pop(state, KeyStrong(symbol)), results |-> <<>>]

\* process_symbol (main.py:114-148): state is the caller's copy, df4h the 4h
\* frame after macd, conf the confirmation frames; returns (state, results)
process_symbol(symbol, state, force_run, df4h, conf) ==
    IF IsEmpty(df4h) THEN [state |-> state, results |-> <<>>]
    ELSE IF check_first_green(df4h) THEN
        LET key == Key4h(symbol)
            last_time == Get(state, key, 0)
            candle_time == CandleTime(df4h)
        IN IF last_time # candle_time \/ force_run
           THEN [state |-> Put(Put(state, key, candle_time), KeyStrong(symbol), FALSE),
                 results |-> <<SignalMsg(symbol)>>]
           ELSE LET alignment == Alignment(conf)
                IN IF alignment # <<>> /\ ~Get(state, KeyStrong(symbol), FALSE)
                   THEN [state |-> Put(state, KeyStrong(symbol), TRUE),
                         results |-> <<StrongMsg(symbol, alignment)>>]
                   ELSE [state |-> state, results |-> <<>>]
    ELSE [state |-> Pop(state, KeyStrong(symbol)), results |-> <<>>]

\* ------------------------------------------------------------------- state
VARIABLES
    file,        \* state.json: [exists, data]
    clock,       \* close time of the latest 4h candle on the exchange
    pc,          \* pc[t]: position of thread t in scanner()
    acc,         \* acc[t]: the local `state` of scanner(), the accumulator
    snapshot,    \* snapshot[t]: the state as load_state returned it
    symbols,     \* symbols[t]: result of fetch_symbols
    tasks,       \* tasks[t][s]: the future submitted for symbol s
    sent,        \* sent[t]: messages handed to send_telegram in this cycle
    order,       \* order[t]: symbols in the order as_completed yielded them
    saves,       \* saves[t]: save_state calls of this scanner invocation
    streak,      \* streak[s]: [ct, signals] over consecutive cycles showing
                 \*   first-green at candle time ct for s
    strongCount, \* strongCount[s]: STRONG SIGNALs since the primary event of
                 \*   s last cleared or re-triggered
    df,          \* input frame of the detector check
    verdict,     \* [done, value]: result of check_first_green(df)
    mbase, md1, md2, \* inputs of the merge check
    mout,        \* [done, m1, m12, m21]: results of the merge check
    signalled,   \* signalled[s]: candle times for which a "Signal" for s
                 \*   has been sent
    rc,          \* one process_symbol call on its own: arguments and result
    sg           \* one safe_get call and its caller

scanVars == <<file, clock, pc, acc, snapshot, symbols, tasks, sent, order, saves>>
histVars == <<streak, strongCount, signalled>>
pureVars == <<df, verdict, mbase, md1, md2, mout, rc, sg>>
vars == <<scanVars, histVars, pureVars>>

\* state.json does not exist (os.path.exists is false)
NoFile == [exists |-> FALSE, data |-> EmptyMap]

\* load_state (main.py:100-104); json.load of what json.dump wrote gives back
\* the same dict of string keys, ints and booleans
load_state == IF file.exists THEN file.data ELSE EmptyMap

\* force_run of the scanner call a thread makes (main.py:179, 184)
ForceRun(t) == t = "startup"

NoConf == [tf \in ConfTFSet |-> EmptyFrame]

IdleTask ==
    [status |-> "idle", copy |-> EmptyMap, df4h |-> EmptyFrame, conf |-> NoConf,
     fetched |-> {}, raised |-> FALSE, new_state |-> EmptyMap, results |-> <<>>]

NoTasks == [s \in Symbols |-> IdleTask]

NoVerdict == [done |-> FALSE, value |-> FALSE]
NoMerge == [done |-> FALSE, m1 |-> EmptyMap, m12 |-> EmptyMap, m21 |-> EmptyMap]

NoReconcile ==
    [symbol |-> 1, state |-> EmptyMap, force_run |-> FALSE, df4h |-> EmptyFrame,
     conf |-> NoConf, done |-> FALSE, new_state |-> EmptyMap, results |-> <<>>,
     fetched |-> <<>>]

NoRetry ==
    [caller |-> "none", retries |-> 0, answers |-> <<>>, attempt |-> 0,
     requests |-> 0, slept |-> <<>>, pc |-> "idle", raised |-> FALSE,
     response |-> "unset", result |-> "none"]

DetectIdle == df = EmptyFrame /\ verdict = NoVerdict
MergeIdle == mbase = EmptyMap /\ md1 = EmptyMap /\ md2 = EmptyMap /\ mout = NoMerge
ReconcileIdle == rc = NoReconcile
RetryIdle == sg = NoRetry
PureIdle == DetectIdle /\ MergeIdle /\ ReconcileIdle /\ RetryIdle

\* no scanner call has started yet
ScannersIdle ==
    /\ pc = [t \in Threads |-> "start"]
    /\ acc = [t \in Threads |-> EmptyMap]
    /\ snapshot = [t \in Threads |-> EmptyMap]
    /\ symbols = [t \in Threads |-> {}]
    /\ tasks = [t \in Threads |-> NoTasks]
    /\ sent = [t \in Threads |-> <<>>]
    /\ order = [t \in Threads |-> <<>>]
    /\ saves = [t \in Threads |-> 0]
    /\ streak = [s \in Symbols |-> [ct |-> 0, signals |-> 0]]
    /\ strongCount = [s \in Symbols |-> 0]
    /\ signalled = [s \in Symbols |-> {}]

\* process start on a fresh deployment: no state.json yet
ScanInit ==
    /\ file = NoFile
    /\ clock = 1
    /\ ScannersIdle

Init == ScanInit /\ PureIdle

\* ----------------------------------------------------------------- scanner
\* state = load_state() (main.py:152)
LoadState(t) ==
    /\ pc[t] = "start"
    /\ acc' = [acc EXCEPT ![t] = load_state]
    /\ snapshot' = [snapshot EXCEPT ![t] = load_state]
    /\ pc' = [pc EXCEPT ![t] = "fetch"]
    /\ UNCHANGED <<file, clock, symbols, tasks, sent, order, saves, histVars, pureVars>>

\* symbols = fetch_symbols(); if not symbols: return (main.py:153-156)
FetchSymbols(t) ==
    /\ pc[t] = "fetch"
    /\ \E syms \in SUBSET Symbols :
        /\ symbols' = [symbols EXCEPT ![t] = syms]
        /\ pc' = [pc EXCEPT ![t] = IF syms = {} THEN "returned" ELSE "submit"]
    /\ UNCHANGED <<file, clock, acc, snapshot, tasks, sent, order, saves, histVars, pureVars>>

\* the dict comprehension of executor.submit calls (main.py:160): every task
\* gets state.copy(), taken before the first result is merged
Submit(t) ==
    /\ pc[t] = "submit"
    /\ tasks' = [tasks EXCEPT ![t] =
            [s \in Symbols |->
                IF s \in symbols[t]
                THEN [IdleTask EXCEPT !.status = "submitted", !.copy = Copy(acc[t])]
                ELSE IdleTask]]
    /\ pc' = [pc EXCEPT ![t] = "collect"]
    /\ UNCHANGED <<file, clock, acc, snapshot, symbols, sent, order, saves, histVars, pureVars>>

\* a worker handed the scanner's dict itself instead of a copy
TaskViewLive(t, s) == acc[t]

\* the dict a worker's process_symbol call reads and writes: its own copy
TaskView(t, s) == tasks[t][s].copy

\* a worker thread runs process_symbol(symbol, copy, force_run); the frames
\* are what the exchange answers, and the call may raise (main.py:124, 120)
Run(t, s) ==
    /\ tasks[t][s].status = "submitted"
    /\ \/ \E df4h \in PrimaryFrames(clock) :
            \E conf \in IF NeedsConfirm(s, TaskView(t, s), ForceRun(t), df4h)
                        THEN [ConfTFSet -> ConfFrames(clock)] ELSE {NoConf} :
                LET r == process_symbol(s, TaskView(t, s), ForceRun(t), df4h, conf)
                IN tasks' = [tasks EXCEPT ![t][s] =
                        [@ EXCEPT !.status = "done", !.df4h = df4h, !.conf = conf,
                                  !.fetched = IF NeedsConfirm(s, TaskView(t, s), ForceRun(t), df4h)
                                              THEN {"4h"} \cup ConfTFSet ELSE {"4h"},
                                  !.new_state = r.state, !.results = r.results]]
       \/ tasks' = [tasks EXCEPT ![t][s] = [@ EXCEPT !.status = "done", !.raised = TRUE]]
    /\ UNCHANGED <<file, clock, pc, acc, snapshot, symbols, sent, order, saves, histVars, pureVars>>

\* the loop body without its try/except: a task's exception leaves scanner
CollectResultNoCatch(a, out, tk) ==
    IF tk.raised
    THEN [acc |-> a, sent |-> out, pc |-> "aborted"]
    ELSE [acc |-> Merge(a, tk.new_state), sent |-> out \o tk.results, pc |-> "collect"]

\* body of the as_completed loop for one future (main.py:162-168): merge the
\* returned state and send the messages, or catch the task's exception
CollectResult(a, out, tk) ==
    IF tk.raised
    THEN [acc |-> a, sent |-> out, pc |-> "collect"]
    ELSE [acc |-> Merge(a, tk.new_state), sent |-> out \o tk.results, pc |-> "collect"]

\* the 4h frame of a finished task shows a first-green event
ShowsGreen(tk) == ~tk.raised /\ ~IsEmpty(tk.df4h) /\ check_first_green(tk.df4h)

CountKind(msgs, kind) == Cardinality({i \in 1..Len(msgs) : msgs[i].kind = kind})

Min(a, b) == IF a < b THEN a ELSE b

StreakAfter(st, tk) ==
    IF ShowsGreen(tk)
    THEN IF st.ct = CandleTime(tk.df4h)
         THEN [ct |-> st.ct, signals |-> Min(2, st.signals + CountKind(tk.results, "Signal"))]
         ELSE [ct |-> CandleTime(tk.df4h), signals |-> CountKind(tk.results, "Signal")]
    ELSE [ct |-> 0, signals |-> 0]

\* candle times of s for which a "Signal" has been sent, after tk is collected
SignalledAfter(S, tk) ==
    IF ~tk.raised /\ CountKind(tk.results, "Signal") > 0
    THEN S \cup {CandleTime(tk.df4h)} ELSE S

StrongAfter(n, tk) ==
    IF tk.raised \/ IsEmpty(tk.df4h) THEN n
    ELSE IF ~check_first_green(tk.df4h) THEN 0
    ELSE IF CountKind(tk.results, "Signal") > 0 THEN 0
    ELSE Min(2, n + CountKind(tk.results, "STRONG SIGNAL"))

Collect(t, s) ==
    /\ pc[t] = "collect"
    /\ tasks[t][s].status = "done"
    /\ LET r == CollectResult(acc[t], sent[t], tasks[t][s])
       IN /\ acc' = [acc EXCEPT ![t] = r.acc]
          /\ sent' = [sent EXCEPT ![t] = r.sent]
          /\ pc' = [pc EXCEPT ![t] = r.pc]
    /\ tasks' = [tasks EXCEPT ![t][s].status = "merged"]
    /\ order' = [order EXCEPT ![t] = Append(@, s)]
    /\ streak' = [streak EXCEPT ![s] = StreakAfter(@, tasks[t][s])]
    /\ strongCount' = [strongCount EXCEPT ![s] = StrongAfter(@, tasks[t][s])]
    /\ signalled' = [signalled EXCEPT ![s] = SignalledAfter(@, tasks[t][s])]
    /\ UNCHANGED <<file, clock, snapshot, symbols, saves, pureVars>>

\* save_state reached as soon as one future has been collected
AnyCollected(t) == \E s \in symbols[t] : tasks[t][s].status = "merged"

\* every future has been yielded by as_completed and the pool has shut down
AllCollected(t) == \A s \in symbols[t] : tasks[t][s].status = "merged"

\* save_state(state) (main.py:170, 107-109)
SaveState(t) ==
    /\ pc[t] = "collect"
    /\ AllCollected(t)
    /\ file' = [exists |-> TRUE, data |-> acc[t]]
    /\ saves' = [saves EXCEPT ![t] = @ + 1]
    /\ pc' = [pc EXCEPT ![t] = "saved"]
    /\ UNCHANGED <<clock, acc, snapshot, symbols, tasks, sent, order, histVars, pureVars>>

\* the loop without the try/except of main.py:183-186: an exception that
\* leaves scanner ends the thread
SleepNoCatch(t) ==
    /\ t = "loop"
    /\ pc[t] \in {"saved", "returned"}
    /\ \E c \in {clock, Min(clock + 1, MaxTime)} : clock' = c
    /\ pc' = [pc EXCEPT ![t] = "start"]
    /\ acc' = [acc EXCEPT ![t] = EmptyMap]
    /\ snapshot' = [snapshot EXCEPT ![t] = EmptyMap]
    /\ symbols' = [symbols EXCEPT ![t] = {}]
    /\ tasks' = [tasks EXCEPT ![t] = NoTasks]
    /\ sent' = [sent EXCEPT ![t] = <<>>]
    /\ order' = [order EXCEPT ![t] = <<>>]
    /\ saves' = [saves EXCEPT ![t] = 0]
    /\ UNCHANGED <<file, histVars, pureVars>>

\* scanner has returned or raised in the loop thread; time.sleep(SCAN_INTERVAL)
\* and the next iteration (main.py:182-187).  The 4h candle may have closed.
Sleep(t) ==
    /\ t = "loop"
    /\ pc[t] \in {"saved", "returned", "aborted"}
    /\ \E c \in {clock, Min(clock + 1, MaxTime)} : clock' = c
    /\ pc' = [pc EXCEPT ![t] = "start"]
    /\ acc' = [acc EXCEPT ![t] = EmptyMap]
    /\ snapshot' = [snapshot EXCEPT ![t] = EmptyMap]
    /\ symbols' = [symbols EXCEPT ![t] = {}]
    /\ tasks' = [tasks EXCEPT ![t] = NoTasks]
    /\ sent' = [sent EXCEPT ![t] = <<>>]
    /\ order' = [order EXCEPT ![t] = <<>>]
    /\ saves' = [saves EXCEPT ![t] = 0]
    /\ UNCHANGED <<file, histVars, pureVars>>

LoopLoadState == LoadState("loop")
LoopFetchSymbols == FetchSymbols("loop")
LoopSubmit == Submit("loop")
LoopRun == \E s \in Symbols : Run("loop", s)
LoopCollect == \E s \in Symbols : Collect("loop", s)
LoopSaveState == SaveState("loop")
LoopSleep == Sleep("loop")

\* the periodic scan loop alone: a sequence of non-forced scan cycles
Next ==
    \/ LoopLoadState
    \/ LoopFetchSymbols
    \/ LoopSubmit
    \/ LoopRun
    \/ LoopCollect
    \/ LoopSaveState
    \/ LoopSleep

Spec == Init /\ [][Next]_vars

TypeOK ==
    /\ clock \in 1..MaxTime
    /\ \A t \in Threads : pc[t] \in {"start", "fetch", "submit", "collect", "saved", "returned", "aborted"}

\* ------------------------------------------------------- one scan cycle
\* The state maps save_state can have written by candle time ct: a symbol is
\* either unknown, or has both its keys (main.py:129-130 writes them together
\* and no update removes a key).  An entry <<0, FALSE>> stands for "unknown".
StoredEntries(ct) == {<<0, FALSE>>} \cup ((1..ct) \X BOOLEAN)

StateOf(ch) ==
    [k \in {Key4h(s) : s \in {x \in Symbols : ch[x][1] > 0}}
          \cup {KeyStrong(s) : s \in {x \in Symbols : ch[x][1] > 0}} |->
        IF k[2] = "4h" THEN ch[k[1]][1] ELSE ch[k[1]][2]]

StoredStates(ct) == {StateOf(ch) : ch \in [Symbols -> StoredEntries(ct)]}

\* a periodic cycle that starts from any state an earlier cycle has saved;
\* the stored candle times are the current one or older ones
InitCycle ==
    /\ clock = MaxTime
    /\ \E st \in StoredStates(clock) : file = [exists |-> TRUE, data |-> st]
    /\ ScannersIdle
    /\ PureIdle

NextCycle ==
    \/ LoopLoadState
    \/ LoopFetchSymbols
    \/ LoopSubmit
    \/ LoopRun
    \/ LoopCollect
    \/ LoopSaveState

SpecCycle == InitCycle /\ [][NextCycle]_vars

\* every state.json the scan loop writes is one of the StoredStates
FileIsStoredState == file.exists => file.data \in StoredStates(clock)

\* ------------------------------------------------- the detector on its own
\* check_first_green applied to every frame of at most MaxLen candles
InitDetect ==
    /\ ScanInit
    /\ MergeIdle /\ ReconcileIdle /\ RetryIdle
    /\ df \in AllFrames(MaxLen)
    /\ verdict = NoVerdict

Detect ==
    /\ ~verdict.done
    /\ verdict' = [done |-> TRUE, value |-> check_first_green(df)]
    /\ UNCHANGED <<scanVars, histVars, df, mbase, md1, md2, mout, rc, sg>>

NextDetect == Detect

SpecDetect == InitDetect /\ [][NextDetect]_vars

\* ----------------------------------------------------- the merge on its own
\* state maps over keys 1..MaxKey with values 0..MaxVal
SmallMaps == UNION {[D -> 0..MaxVal] : D \in SUBSET (1..MaxKey)}

InitMerge ==
    /\ ScanInit
    /\ DetectIdle /\ ReconcileIdle /\ RetryIdle
    /\ mbase \in SmallMaps /\ md1 \in SmallMaps /\ md2 \in SmallMaps
    /\ mout = NoMerge

\* state.update(d1) alone, then with d2, and in the opposite order
DoMerge ==
    /\ ~mout.done
    /\ mout' = [done |-> TRUE,
                m1 |-> Merge(mbase, md1),
                m12 |-> Merge(Merge(mbase, md1), md2),
                m21 |-> Merge(Merge(mbase, md2), md1)]
    /\ UNCHANGED <<scanVars, histVars, df, verdict, mbase, md1, md2, rc, sg>>

NextMerge == DoMerge

SpecMerge == InitMerge /\ [][NextMerge]_vars

\* ------------------------------------------------- what a cycle has produced
L == "loop"

Finished(t) == pc[t] \in {"saved", "returned", "aborted"}

\* symbols of the cycle whose task returned, in the order they were collected
Returned(t) == SelectSeq(order[t], LAMBDA s : ~tasks[t][s].raised)

\* symbols whose 4h fetch came back empty
EmptyFetched(t) ==
    {s \in symbols[t] : tasks[t][s].status \in {"done", "merged"}
                        /\ ~tasks[t][s].raised /\ IsEmpty(tasks[t][s].df4h)}

\* the returned states of the tasks of ord merged one after the other into a
RECURSIVE MergeAll(_, _, _)
MergeAll(a, t, ord) ==
    IF ord = <<>> THEN a
    ELSE MergeAll(Merge(a, tasks[t][Head(ord)].new_state), t, Tail(ord))

\* the messages of the tasks of ord, in that order
RECURSIVE SentAll(_, _)
SentAll(t, ord) ==
    IF ord = <<>> THEN <<>>
    ELSE tasks[t][Head(ord)].results \o SentAll(t, Tail(ord))

MsgsFor(msgs, s) == {i \in 1..Len(msgs) : msgs[i].symbol = s}
MsgsOfKind(msgs, s, kind) ==
    {i \in 1..Len(msgs) : msgs[i].symbol = s /\ msgs[i].kind = kind}

\* ------------------------------------------------------------------ claims

\* C1: over consecutive non-forced cycles in which symbol s keeps showing a
\* first-green event with the same last candle time, at most one "Signal"
\* notification for s is emitted.
C1_DedupAcrossCycles == \A s \in Symbols : streak[s].signals <= 1

\* C2: when the cycle has saved, every symbol whose 4h frame showed first-green
\* at a candle time different from the one stored at cycle start (default 0)
\* has exactly one "Signal" among the cycle's messages, and the saved state
\* holds that candle time and escalation_fired = false for it.
C2_NewPrimaryReportedAndRecorded ==
    pc[L] = "saved" =>
        \A s \in symbols[L] :
            LET tk == tasks[L][s]
            IN (ShowsGreen(tk) /\ CandleTime(tk.df4h) # Get(snapshot[L], Key4h(s), 0)) =>
                /\ Cardinality(MsgsOfKind(sent[L], s, "Signal")) = 1
                /\ Key4h(s) \in DOMAIN file.data
                /\ file.data[Key4h(s)] = CandleTime(tk.df4h)
                /\ KeyStrong(s) \in DOMAIN file.data
                /\ file.data[KeyStrong(s)] = FALSE

\* C3: once a "STRONG SIGNAL" has been emitted for s, no further one is emitted
\* for s until its primary event has cleared or re-triggered.
C3_EscalationOncePerEvent == \A s \in Symbols : strongCount[s] <= 1

\* C4: when the cycle has saved, every symbol whose 4h frame showed no
\* first-green event and whose escalation_fired was true at cycle start has no
\* message in the cycle and escalation_fired not true in the saved state.
C4_StateClearing ==
    pc[L] = "saved" =>
        \A s \in symbols[L] :
            LET tk == tasks[L][s]
            IN (/\ ~tk.raised /\ ~IsEmpty(tk.df4h) /\ ~check_first_green(tk.df4h)
                /\ Get(snapshot[L], KeyStrong(s), FALSE)) =>
                /\ MsgsFor(sent[L], s) = {}
                /\ ~Get(file.data, KeyStrong(s), FALSE)

\* C5: when the cycle has saved, the saved state and the messages sent are
\* those of the same cycle without the symbols whose 4h fetch was empty (the
\* other tasks completing in the same order).
C5_EmptyFetchIsNeutral ==
    pc[L] = "saved" =>
        LET others == SelectSeq(Returned(L), LAMBDA s : s \notin EmptyFetched(L))
        IN /\ file.data = MergeAll(snapshot[L], L, others)
           /\ sent[L] = SentAll(L, others)

\* C6: a task that raised does not abort the cycle and contributes nothing:
\* scanner never leaves the loop by an exception, the accumulator and the
\* messages are exactly those of the tasks that returned, in collection order,
\* and the saved state is that accumulator once every future was collected.
C6_FailureIsSkipped ==
    /\ pc[L] # "aborted"
    /\ pc[L] \in {"collect", "saved"} =>
        /\ acc[L] = MergeAll(snapshot[L], L, Returned(L))
        /\ sent[L] = SentAll(L, Returned(L))
    /\ pc[L] = "saved" =>
        /\ file.data = acc[L]
        /\ \A s \in symbols[L] : \E i \in 1..Len(order[L]) : order[L][i] = s

C6_Witness ==
    /\ pc[L] = "saved"
    /\ \E s1, s2 \in symbols[L] :
        /\ tasks[L][s1].raised
        /\ ~tasks[L][s2].raised
        /\ tasks[L][s2].results # <<>>
        /\ Key4h(s2) \in DOMAIN file.data

\* C7: check_first_green is true exactly when the frame has at least 3 candles,
\* the bar before the last is negative and the last bar is positive; the bars
\* before those two do not matter.
Sign(x) == IF x < 0 THEN "neg" ELSE IF x > 0 THEN "pos" ELSE "zero"

C7_EventDetector ==
    verdict.done =>
        LET n == Len(df)
        IN /\ n < 3 => ~verdict.value
           /\ n >= 3 => (verdict.value <=>
                            (Sign(df[n - 1].hist) = "neg" /\ Sign(df[n].hist) = "pos"))
           /\ n >= 3 =>
                \A g \in AllFrames(MaxLen) :
                    (/\ Len(g) >= 3
                     /\ g[Len(g) - 1].hist = df[n - 1].hist
                     /\ g[Len(g)].hist = df[n].hist) => check_first_green(g) = verdict.value

C7_Witness ==
    /\ verdict.done /\ verdict.value
    /\ Len(df) = MaxLen
    /\ df[1].hist > 0

\* C8: update makes the delta's entries win on a key collision and keeps the
\* keys the delta lacks; two deltas with disjoint key sets give the same map
\* in either order.
C8_MergeRightBiased ==
    mout.done =>
        /\ DOMAIN mout.m1 = DOMAIN mbase \cup DOMAIN md1
        /\ \A k \in DOMAIN md1 : mout.m1[k] = md1[k]
        /\ \A k \in DOMAIN mbase \ DOMAIN md1 : mout.m1[k] = mbase[k]
        /\ (DOMAIN md1 \cap DOMAIN md2 = {}) => mout.m12 = mout.m21

C8_Witness ==
    /\ mout.done
    /\ DOMAIN md1 # {} /\ DOMAIN md2 # {} /\ DOMAIN md1 \cap DOMAIN md2 = {}
    /\ \E k \in DOMAIN mbase \cap DOMAIN md1 : mbase[k] # md1[k]
    /\ mout.m12 = mout.m21

\* C9 as claimed: every scanner invocation that has ended called save_state
\* exactly once.
C9_SavedOncePerInvocation == Finished(L) => saves[L] = 1

\* C9 amended: a scanner invocation whose instrument list is not empty calls
\* save_state exactly once, after every future was collected, with the merged
\* accumulator; an invocation whose list is empty calls it not at all.
C9_SavedOnceAfterAllCollected ==
    /\ saves[L] <= 1
    /\ Finished(L) => saves[L] = (IF symbols[L] = {} THEN 0 ELSE 1)
    /\ ~Finished(L) => saves[L] = 0
    /\ saves[L] = 1 =>
        /\ \A s \in symbols[L] : tasks[L][s].status = "merged"
        /\ file.data = acc[L]

C9_Witness ==
    /\ pc[L] = "saved"
    /\ saves[L] = 1
    /\ Len(order[L]) = MaxSymbols
    /\ file.data # snapshot[L]

\* C10: every task works on a copy equal to the state loaded at cycle start,
\* its result is process_symbol of that state whatever siblings have merged,
\* and the accumulator is the loaded state with the collected results merged
\* one after the other.
C10_SnapshotIsolation ==
    pc[L] \in {"collect", "saved"} =>
        /\ \A s \in symbols[L] :
            LET tk == tasks[L][s]
            IN /\ tk.copy = snapshot[L]
               /\ (tk.status \in {"done", "merged"} /\ ~tk.raised) =>
                    [state |-> tk.new_state, results |-> tk.results]
                        = process_symbol(s, snapshot[L], ForceRun(L), tk.df4h, tk.conf)
        /\ acc[L] = MergeAll(snapshot[L], L, Returned(L))

C10_Witness ==
    /\ pc[L] = "collect"
    /\ acc[L] # snapshot[L]
    /\ \E s1, s2 \in symbols[L] :
        /\ tasks[L][s1].status = "merged"
        /\ tasks[L][s1].new_state # snapshot[L]
        /\ tasks[L][s2].status = "done"
        /\ tasks[L][s2].results # <<>>


\* C11: merging the value a task returned for symbol s leaves the accumulator's
\* value for every key of every other symbol as it was.
C11_DeltaLocality ==
    [][\A s \in Symbols :
          (order'[L] = Append(order[L], s) /\ ~tasks[L][s].raised) =>
              \A k \in DOMAIN acc[L] :
                  k[1] # s => (k \in DOMAIN acc'[L] /\ acc'[L][k] = acc[L][k])]_vars

\* every order in which the symbols of S can be collected
RECURSIVE Perms(_)
Perms(S) ==
    IF S = {} THEN {<<>>}
    ELSE UNION {{<<x>> \o p : p \in Perms(S \ {x})} : x \in S}

\* C12: when the cycle has saved, the saved state is the one every collection
\* order of the same task results gives, and it holds the own keys of every
\* symbol as that symbol's task returned them.
C12_OrderIndependence ==
    pc[L] = "saved" =>
        LET done == {s \in symbols[L] : ~tasks[L][s].raised}
        IN /\ \A ord \in Perms(done) : MergeAll(snapshot[L], L, ord) = file.data
           /\ \A s \in done :
                \A k \in {Key4h(s), KeyStrong(s)} \cap DOMAIN tasks[L][s].new_state :
                    k \in DOMAIN file.data /\ file.data[k] = tasks[L][s].new_state[k]


\* ------------------------------------------- process startup (start_loop)
\* start_loop starts a thread running scanner(force_run=True) and, without
\* waiting for it, the loop thread whose first iteration calls scanner()
\* (main.py:179-188).  The model follows the startup scan and the first
\* periodic scan.
StartupLoadState == LoadState("startup")
StartupFetchSymbols == FetchSymbols("startup")
StartupSubmit == Submit("startup")
StartupRun == \E s \in Symbols : Run("startup", s)
StartupCollect == \E s \in Symbols : Collect("startup", s)
StartupSaveState == SaveState("startup")

NextStartup ==
    \/ StartupLoadState
    \/ StartupFetchSymbols
    \/ StartupSubmit
    \/ StartupRun
    \/ StartupCollect
    \/ StartupSaveState
    \/ LoopLoadState
    \/ LoopFetchSymbols
    \/ LoopSubmit
    \/ LoopRun
    \/ LoopCollect
    \/ LoopSaveState

SpecStartup == Init /\ [][NextStartup]_vars

\* thread t is inside scanner, between its load_state and its save_state
InFlight(t) == pc[t] \in {"fetch", "submit", "collect"}

\* C13: at most one scanner invocation is between its load_state and its
\* save_state at any time, no save overwrites a state.json that changed since
\* the saving cycle loaded it, and no two cycles emit a "Signal" for the same
\* symbol and candle.
C13_CyclesDoNotOverlap ==
    /\ ~(InFlight("loop") /\ InFlight("startup"))
    /\ \A t \in Threads : InFlight(t) => load_state = snapshot[t]
    /\ \A s \in Symbols :
        ~(MsgsOfKind(sent["loop"], s, "Signal") # {}
          /\ MsgsOfKind(sent["startup"], s, "Signal") # {})


\* ------------------------------------------------ one reconciliation on its own
\* hist columns of a 4h frame: crossing, cleared, too short, last bar zero,
\* previous bar zero
ReconcileHists == {<<-1, -1, 1>>, <<1, 1, -1>>, <<-1, 1>>, <<-1, -1, 0>>, <<1, 0, 1>>}
ReconcileFrames ==
    {EmptyFrame} \cup {MkFrame(h, ct) : h \in ReconcileHists, ct \in 1..MaxTime}

\* a confirmation fetch fails, shows its own crossing, or shows none
ReconcileConfFrames ==
    {EmptyFrame, MkFrame(<<-1, -1, 1>>, MaxTime), MkFrame(<<1, 1, -1>>, MaxTime)}

\* what a state map holds for one symbol: nothing, or a reported candle time
\* with the escalation flag false, true, or popped (main.py:146)
ReconcileEntries ==
    {[time |-> 0, strong |-> "absent"]}
        \cup [time : 1..MaxTime, strong : {"absent", "false", "true"}]
OtherEntries == {[time |-> 0, strong |-> "absent"], [time |-> MaxTime, strong |-> "true"]}

ReconcileStateOf(ch) ==
    [k \in {Key4h(s) : s \in {x \in Symbols : ch[x].time > 0}}
          \cup {KeyStrong(s) : s \in {x \in Symbols : ch[x].time > 0
                                                       /\ ch[x].strong # "absent"}} |->
        IF k[2] = "4h" THEN ch[k[1]].time ELSE ch[k[1]].strong = "true"]

\* the state maps process_symbol(symbol, ...) is called with
ReconcileStates(symbol) ==
    {ReconcileStateOf(ch) :
        ch \in {c \in [Symbols -> ReconcileEntries] :
                    \A x \in Symbols \ {symbol} : c[x] \in OtherEntries}}

InitReconcile ==
    /\ ScanInit
    /\ DetectIdle /\ MergeIdle /\ RetryIdle
    /\ \E symbol \in Symbols, force_run \in BOOLEAN,
          df4h \in ReconcileFrames, conf \in [ConfTFSet -> ReconcileConfFrames] :
        \E state \in ReconcileStates(symbol) :
            rc = [NoReconcile EXCEPT !.symbol = symbol, !.state = state,
                                     !.force_run = force_run, !.df4h = df4h,
                                     !.conf = conf]

Reconcile ==
    /\ ~rc.done
    /\ LET out == process_symbol(rc.symbol, rc.state, rc.force_run, rc.df4h, rc.conf)
       IN rc' = [rc EXCEPT !.done = TRUE,
                           !.new_state = out.state,
                           !.results = out.results,
                           !.fetched = fetched_timeframes(rc.symbol, rc.state,
                                                          rc.force_run, rc.df4h)]
    /\ UNCHANGED <<scanVars, histVars, df, verdict, mbase, md1, md2, mout, sg>>

NextReconcile == Reconcile

SpecReconcile == InitReconcile /\ [][NextReconcile]_vars

\* the bar before the last is below zero and the last one above, on 3+ bars
Crossing(frame) ==
    /\ Len(frame) >= 3
    /\ Sign(frame[Len(frame) - 1].hist) = "neg"
    /\ Sign(frame[Len(frame)].hist) = "pos"

\* C14: a forced reconciliation of a 4h first-green emits exactly one "Signal"
\* whatever the stored candle time is, records the candle time, resets the
\* escalation flag, fetches no confirmation timeframe and emits no "STRONG SIGNAL".
C14_ForceRerun ==
    (rc.done /\ rc.force_run /\ Crossing(rc.df4h)) =>
        /\ Len(rc.results) = 1
        /\ rc.results[1].kind = "Signal"
        /\ rc.results[1].symbol = rc.symbol
        /\ Key4h(rc.symbol) \in DOMAIN rc.new_state
        /\ rc.new_state[Key4h(rc.symbol)] = rc.df4h[Len(rc.df4h)].time
        /\ KeyStrong(rc.symbol) \in DOMAIN rc.new_state
        /\ rc.new_state[KeyStrong(rc.symbol)] = FALSE
        /\ \A k \in DOMAIN rc.new_state :
              k[1] # rc.symbol => (k \in DOMAIN rc.state /\ rc.new_state[k] = rc.state[k])
        /\ \A k \in DOMAIN rc.state : k \in DOMAIN rc.new_state
        /\ rc.fetched = <<"4h">>

\* forced, and the stored candle time equals the current one with the
\* escalation already fired
C14_Witness ==
    /\ rc.done /\ rc.force_run /\ Crossing(rc.df4h)
    /\ Key4h(rc.symbol) \in DOMAIN rc.state
    /\ rc.state[Key4h(rc.symbol)] = rc.df4h[Len(rc.df4h)].time
    /\ Get(rc.state, KeyStrong(rc.symbol), FALSE)
    /\ rc.conf["1h"] # EmptyFrame /\ Crossing(rc.conf["1h"])
    /\ rc.results # <<>>


\* the confirmation timeframes whose frame was fetched and shows a crossing
Aligned(conf) == {tf \in ConfTFSet : conf[tf] # EmptyFrame /\ Crossing(conf[tf])}

\* C15: not forced, 4h first-green at the stored candle time: a "STRONG SIGNAL"
\* is emitted and the escalation flag set exactly when some confirmation
\* timeframe is aligned and the flag is not already true; it lists exactly the
\* aligned timeframes, an empty fetch counting as not aligned; otherwise
\* nothing is emitted and the state stays as it was.
C15_EscalationDecision ==
    (/\ rc.done /\ ~rc.force_run /\ Crossing(rc.df4h)
     /\ Get(rc.state, Key4h(rc.symbol), 0) = rc.df4h[Len(rc.df4h)].time) =>
        LET fired == Get(rc.state, KeyStrong(rc.symbol), FALSE)
            strong == KeyStrong(rc.symbol)
        IN IF Aligned(rc.conf) # {} /\ ~fired
           THEN /\ Len(rc.results) = 1
                /\ rc.results[1].kind = "STRONG SIGNAL"
                /\ rc.results[1].symbol = rc.symbol
                /\ {rc.results[1].alignment[i] : i \in DOMAIN rc.results[1].alignment}
                      = Aligned(rc.conf)
                /\ Len(rc.results[1].alignment) = Cardinality(Aligned(rc.conf))
                /\ DOMAIN rc.new_state = DOMAIN rc.state \cup {strong}
                /\ rc.new_state[strong] = TRUE
                /\ \A k \in DOMAIN rc.state : k # strong => rc.new_state[k] = rc.state[k]
           ELSE /\ rc.results = <<>>
                /\ rc.new_state = rc.state

\* the 1h fetch failed, 15m is aligned, and the escalation is reported
C15_Witness ==
    /\ rc.done /\ ~rc.force_run /\ Crossing(rc.df4h)
    /\ Get(rc.state, Key4h(rc.symbol), 0) = rc.df4h[Len(rc.df4h)].time
    /\ rc.conf["1h"] = EmptyFrame
    /\ Aligned(rc.conf) = {"15m"}
    /\ rc.results = <<StrongMsg(rc.symbol, <<"15m">>)>>
    /\ rc.fetched = <<"4h", "1h", "15m">>


\* every message thread t holds for sending or has sent, per finished task
TaskResults(t, s) == IF tasks[t][s].status \in {"done", "merged"} /\ ~tasks[t][s].raised
                     THEN tasks[t][s].results ELSE <<>>

\* C16: a "STRONG SIGNAL" for s comes only after a "Signal" for s with the same
\* 4h candle time was sent by an earlier reconciliation of s; one
\* reconciliation yields at most one notification, never both kinds.
C16_EscalationFollowsPrimary ==
    \A t \in Threads : \A s \in Symbols :
        LET res == TaskResults(t, s)
        IN /\ Len(res) <= 1
           /\ ~(CountKind(res, "Signal") > 0 /\ CountKind(res, "STRONG SIGNAL") > 0)
           /\ CountKind(res, "STRONG SIGNAL") > 0 =>
                  tasks[t][s].df4h[Len(tasks[t][s].df4h)].time \in signalled[s]

\* a later cycle has reported the escalation of a candle whose "Signal" an
\* earlier cycle sent
C16_Witness ==
    \E s \in Symbols :
        /\ tasks[L][s].status = "merged"
        /\ CountKind(TaskResults(L, s), "STRONG SIGNAL") = 1
        /\ strongCount[s] = 1
        /\ signalled[s] = {clock}


\* --------------------------------------------------------- safe_get on its own
\* the default of the retries parameter
DefaultRetries == 3
MaxRetries == 3

\* what one requests.get does: status 200, another status, or an exception
Answers == {"200", "non200", "exception"}
Callers == {"fetch_symbols", "fetch_ohlcv", "direct"}

\* the delay of attempt 0, 1, ... as a constant
backoff_constant(attempt) == 2

\* time.sleep(2 * (attempt + 1)) (main.py:51)
backoff(attempt) == 2 * (attempt + 1)

\* fetch_symbols and fetch_ohlcv call safe_get without retries; a direct call
\* passes any count
InitRetry ==
    /\ ScanInit
    /\ DetectIdle /\ MergeIdle /\ ReconcileIdle
    /\ \E caller \in Callers :
        \E retries \in (IF caller = "direct" THEN 0..MaxRetries ELSE {DefaultRetries}) :
            sg = [NoRetry EXCEPT !.caller = caller, !.retries = retries, !.pc = "loop"]

retryFrame == <<scanVars, histVars, df, verdict, mbase, md1, md2, mout, rc>>

\* one pass of the try block (main.py:44-50)
Request ==
    /\ sg.pc = "loop"
    /\ sg.attempt < sg.retries
    /\ \E answer \in Answers :
          sg' = [sg EXCEPT !.requests = @ + 1,
                           !.answers = Append(@, answer),
                           !.pc = IF answer = "200" THEN "returned" ELSE "sleep",
                           !.response = IF answer = "200" THEN "r" ELSE @]
    /\ UNCHANGED retryFrame

\* time.sleep after a failed attempt, then the next value of range(retries)
Backoff ==
    /\ sg.pc = "sleep"
    /\ sg' = [sg EXCEPT !.slept = Append(@, backoff(sg.attempt)),
                        !.attempt = @ + 1,
                        !.pc = "loop"]
    /\ UNCHANGED retryFrame

\* range(retries) is exhausted: return None (main.py:52)
GiveUp ==
    /\ sg.pc = "loop"
    /\ sg.attempt >= sg.retries
    /\ sg' = [sg EXCEPT !.pc = "returned", !.response = "None"]
    /\ UNCHANGED retryFrame

\* fetch_symbols / fetch_ohlcv after safe_get: empty on None, on a body that
\* lacks the fields and on a parse error (main.py:57-64, 70-82)
CallerResult ==
    /\ sg.pc = "returned"
    /\ sg.caller # "direct"
    /\ \E body \in {"ok", "missing", "unparsable"} :
          sg' = [sg EXCEPT !.pc = "done",
                           !.result = IF sg.response = "None" \/ body # "ok"
                                      THEN "empty" ELSE "rows"]
    /\ UNCHANGED retryFrame

NextRetry ==
    \/ Request
    \/ Backoff
    \/ GiveUp
    \/ CallerResult

SpecRetry == InitRetry /\ [][NextRetry]_vars

FailedAttempts == Cardinality({i \in 1..Len(sg.answers) : sg.answers[i] # "200"})

\* C17: at most `retries` requests; a 200 answer is the last request and is
\* returned at once; the k-th failed attempt is followed by a wait of 2*k;
\* nothing is raised; when every attempt failed the call ends with None, which
\* fetch_symbols and fetch_ohlcv turn into an empty result.
C17_BoundedRetry ==
    /\ sg.requests = Len(sg.answers)
    /\ sg.requests <= sg.retries
    /\ \A i \in 1..Len(sg.answers) :
          sg.answers[i] = "200" =>
              i = Len(sg.answers) /\ sg.pc \in {"returned", "done"} /\ sg.response = "r"
    /\ \A k \in 1..Len(sg.slept) : sg.slept[k] = 2 * k
    /\ Len(sg.slept) = IF sg.pc = "sleep" THEN FailedAttempts - 1 ELSE FailedAttempts
    /\ ~sg.raised
    /\ sg.pc \in {"loop", "sleep"} => ENABLED NextRetry
    /\ (sg.pc \in {"returned", "done"} /\ FailedAttempts = Len(sg.answers)) =>
          sg.response = "None" /\ sg.requests = sg.retries
    /\ sg.response = "None" => FailedAttempts = sg.retries
    /\ (sg.pc = "done" /\ sg.response = "None") => sg.result = "empty"

\* three failed attempts, waits of 2, 4 and 6, None, and an empty result
C17_Witness ==
    /\ sg.pc = "done"
    /\ sg.caller = "fetch_ohlcv"
    /\ sg.answers = <<"non200", "exception", "non200">>
    /\ sg.slept = <<2, 4, 6>>
    /\ sg.response = "None"
    /\ sg.result = "empty"


\* ------------------------------------------------- the scan loop under faults
\* load_state raises: state.json exists but cannot be opened or parsed
\* (main.py:101-103); the exception leaves scanner
LoadStateFails(t) ==
    /\ pc[t] = "start"
    /\ file.exists
    /\ pc' = [pc EXCEPT ![t] = "aborted"]
    /\ UNCHANGED <<file, clock, acc, snapshot, symbols, tasks, sent, order, saves,
                   histVars, pureVars>>

\* save_state raises (main.py:108-109); the exception leaves scanner.  A file
\* it has damaged is one that LoadStateFails cannot read in later cycles.
SaveStateFails(t) ==
    /\ pc[t] = "collect"
    /\ AllCollected(t)
    /\ pc' = [pc EXCEPT ![t] = "aborted"]
    /\ UNCHANGED <<file, clock, acc, snapshot, symbols, tasks, sent, order, saves,
                   histVars, pureVars>>

LoopLoadStateFails == LoadStateFails("loop")
LoopSaveStateFails == SaveStateFails("loop")

\* the periodic loop at one candle time, with every fault of a cycle
InitLoop ==
    /\ file = NoFile
    /\ clock = MaxTime
    /\ ScannersIdle
    /\ PureIdle

NextLoop ==
    \/ LoopLoadState
    \/ LoopLoadStateFails
    \/ LoopFetchSymbols
    \/ LoopSubmit
    \/ LoopRun
    \/ LoopCollect
    \/ LoopSaveState
    \/ LoopSaveStateFails
    \/ LoopSleep

\* every step of the loop thread ends: requests carry timeout=10 and a bounded
\* retry (main.py:38, 42-52), the pool is joined, time.sleep returns
SpecLoop == InitLoop /\ [][NextLoop]_vars /\ WF_vars(NextLoop)

\* C18: whatever fault a cycle meets, the loop catches it, sleeps and starts
\* the next cycle: after every cycle, ended by save_state, by the early return
\* or by an exception, the loop thread calls scanner again.
C18_LoopNeverTerminated ==
    /\ Finished(L) ~> pc[L] = "start"
    /\ []<>(pc[L] = "start")

\* save_state raised at the end of a cycle that collected every task, one of
\* them raised, after an earlier cycle had saved
C18_Witness ==
    /\ pc[L] = "aborted"
    /\ symbols[L] # {}
    /\ AllCollected(L)
    /\ \E s \in symbols[L] : tasks[L][s].raised
    /\ file.exists

====
